---------------------------- MODULE Spec2Model ----------------------------
(***************************************************************************)
(* Model of app/services/job_manager.py: the in-memory job store, the      *)
(* worker processes, the status queue, the listener thread and the public  *)
(* operations create_job, submit_job, stop_job, cleanup_job,               *)
(* shutdown_executor and the read accessors.                               *)
(*                                                                         *)
(* Spec    : every public call and every listener iteration is one step.   *)
(* SpecRet : Spec, with the value of the latest stop_job call kept in ret. *)
(* SpecSD  : one uploaded job, with shutdown_executor; SpecSDLive adds fair *)
(*           scheduling of the worker and the listener.                    *)
(* SpecSL  : submit_job called by two threads at once, interleaved         *)
(*           statement by statement.                                       *)
(* SpecSnap: one uploaded job and a caller that keeps the dict get_job      *)
(*           returned.                                                     *)
(* SpecID  : uploads whose id is any 12 hex digits, as uuid4 can return.    *)
(* SpecStream: one uploaded job and one job_stream request polling it.     *)
(* SpecPct : TqdmToQueue.update applied to every percentage 0..MaxPct.     *)
(* SpecLsn : Spec without stop_job, the listener's latest item kept in ret. *)
(* SpecBad : one uploaded job and a queue that also receives items no      *)
(*           worker sends.                                                 *)
(* SpecUp  : jobs submitted before, during and after shutdown_executor.     *)
(* SpecRW  : stop_job and the listener's _update_job_state run as two      *)
(*           threads of one process, interleaved statement by statement    *)
(*           (the module takes no lock around the job dictionaries).       *)
(***************************************************************************)
EXTENDS Integers, Sequences, FiniteSets, TLC

\* ------------------------------------------------------------------ bounds
MaxJobs == 2
MaxProcs == 2
MaxSub == 1
MaxQueue == 2
MaxUploads == 1
MaxCallers == 2
MaxPct == 100
MaxVersion == 6

JobIds == 1..MaxJobs
Pids == 1..MaxProcs
Callers == 1..MaxCallers

\* --------------------------------------------------------------- constants
None == "<None>"

QUEUED == "QUEUED"
LOADING_MODEL == "LOADING_MODEL"
CONVERTING == "CONVERTING"
TRANSCRIBING == "TRANSCRIBING"
COMPLETED == "COMPLETED"
FAILED == "FAILED"
CANCELLED == "CANCELLED"

JobStatus ==
  {QUEUED, LOADING_MODEL, CONVERTING, TRANSCRIBING, COMPLETED, FAILED, CANCELLED}

\* The TranscriptionResponse a worker builds (an object, truthy in Python).
Transcription == "R"

\* str(e) of the exceptions a worker phase can raise; "" is str(Exception()).
Failures == {"X", ""}

\* Percentages tqdm reports: int(n / total * 100).
SubPcts == {60}

\* Python truthiness of an optional str / optional object.
Truthy(x) == x # None /\ x # ""

VARIABLES
  _jobs,            \* job_id -> job dict               (line 24)
  _processes,       \* job_id -> pid of the Process     (line 27)
  _status_queue,    \* messages put and not yet got     (line 31)
  _listener_thread, \* "None", "alive" or "dead"        (line 34)
  _stop_listener,   \* the Event's flag                 (line 35)
  procs,            \* the OS processes spawned so far, by pid
  issued,           \* ids uuid4 has produced so far
  ret,              \* SpecRet: the latest stop_job call, its argument and result
  stopped,          \* history: id -> the job dict when stop_job returned True
  accepted,         \* history: id -> number of accepted mutations of the record
  sent,             \* history: id -> number of messages put for the job while
                    \*          it was neither cancelled nor removed, and the last
  lpc,              \* SpecRW: the listener thread inside _update_job_state
  cpc,              \* SpecRW, SpecSD: the caller thread inside stop_job or
                    \*          shutdown_executor
  spc,              \* SpecSL: caller thread -> its position inside submit_job
  listeners,        \* SpecSL: the number of live listener threads
  stream            \* SpecStream: the event_generator of one job_stream request

vars == <<_jobs, _processes, _status_queue, _listener_thread, _stop_listener,
          procs, issued, ret, stopped, accepted, sent, lpc, cpc, spc, listeners,
          stream>>

hist == <<stopped, accepted, sent>>
starters == <<spc, listeners>>
threads == <<lpc, cpc, starters, stream>>

\* ----------------------------------------------------------------- helpers
JobExists(j) == j \in DOMAIN _jobs

\* dict.pop(key, None) on a TLA+ function.
Pop(f, k) == [x \in DOMAIN f \ {k} |-> f[x]]

\* d[k] = v on a TLA+ function.
Put(f, k, v) == [x \in DOMAIN f \cup {k} |-> IF x = k THEN v ELSE f[x]]

\* Process.is_alive()
is_alive(p) == procs[p].pc # "exited" /\ ~procs[p].killed

\* The tuple (job_id, status, progress, message, result, error) of line 30.
Msg(j, s, p, m, r, e) ==
  [job_id |-> j, status |-> s, progress |-> p, message |-> m,
   result |-> r, error |-> e]

\* send_update: r and e default to None.
send_update(j, s, p, m) == Msg(j, s, p, m, None, None)

\* Mutant: the sub-progress without the offset of 50.
mapped_pct_unshifted(pct) == (pct * 4) \div 10

\* Mutant: the product is rounded to the nearest integer.
mapped_pct_rounded(pct) == 50 + ((pct * 4 + 5) \div 10)

\* mapped_pct = 50 + int(pct * 0.4) (line 75). pct is an int in 0..100 and
\* the double 0.4 lies above 4/10 by less than 1e-16: the double product is
\* either within 1e-13 above an integer (pct a multiple of 5) or has a
\* fractional part of at least 0.2, so int() of it is the integer quotient
\* of 4 * pct by 10.
mapped_pct(pct) == 50 + ((pct * 4) \div 10)

IdleL == [pc |-> "idle"]
IdleC == [pc |-> "idle"]
IdleS == [pc |-> "idle"]
NoCall == [job_id |-> 0, value |-> FALSE]
NoStream == [pc |-> "none", job_id |-> 0, last_version |-> -1, status |-> None]
NoMsg == [job_id |-> 0, status |-> None, progress |-> 0, message |-> <<>>,
          result |-> None, error |-> None]

Init ==
  /\ _jobs = <<>>
  /\ _processes = <<>>
  /\ _status_queue = <<>>
  /\ _listener_thread = "None"
  /\ _stop_listener = FALSE
  /\ procs = <<>>
  /\ issued = {}
  /\ ret = NoCall
  /\ stopped = <<>>
  /\ accepted = <<>>
  /\ sent = <<>>
  /\ lpc = IdleL
  /\ cpc = IdleC
  /\ spc = [t \in Callers |-> IdleS]
  /\ listeners = 0
  /\ stream = NoStream


\* Messages of job j that are still in the queue.
Pending(j) == {i \in DOMAIN _status_queue : _status_queue[i].job_id = j}

\* The processes spawned for job j.
ProcsOf(j) == {p \in DOMAIN procs : procs[p].job_id = j}

\* Process p has put at least one message.
HasPut(p) == procs[p].pc # "send_loading"

\* ---------------------------------------------------------------- create_job
\* uuid.uuid4().hex[:12]: modelled as an id that was never produced before.
uuid4_hex12 == JobIds \ issued

NewJob_progress_one(j, session_id, file_path, video_filename, language) ==
  [job_id |-> j, session_id |-> session_id, file_path |-> file_path,
   video_filename |-> video_filename, language |-> language,
   status |-> QUEUED, progress |-> 1, message |-> <<"Job queued">>,
   result |-> None, error |-> None, created_at |-> "now", _version |-> 0]

NewJob(j, session_id, file_path, video_filename, language) ==
  [job_id |-> j, session_id |-> session_id, file_path |-> file_path,
   video_filename |-> video_filename, language |-> language,
   status |-> QUEUED, progress |-> 0, message |-> <<"Job queued">>,
   result |-> None, error |-> None, created_at |-> "now", _version |-> 0]

Languages == {"en"}

create_job(j, language) ==
  /\ j \in uuid4_hex12
  /\ _jobs' = Put(_jobs, j, NewJob(j, "session", "upload.mp4", "video.mp4", language))
  /\ issued' = issued \cup {j}
  /\ accepted' = Put(accepted, j, 0)
  /\ sent' = Put(sent, j, [n |-> 0, last |-> NoMsg])
  /\ UNCHANGED <<_processes, _status_queue, _listener_thread, _stop_listener,
                 procs, ret, stopped, threads>>

\* ---------------------------------------------------------------- submit_job
\* _start_listener_if_needed: the flag and the thread after the call.
start_listener_flag ==
  IF _listener_thread \in {"None", "dead"} THEN FALSE ELSE _stop_listener

start_listener_thread ==
  IF _listener_thread \in {"None", "dead"} THEN "alive" ELSE _listener_thread

NewProcess(j) ==
  [job_id |-> j, pc |-> "send_loading", n |-> 0, pct |-> 0, terminals |-> 0,
   killed |-> FALSE]

\* Mutant: lines 223-226 missing, a worker is started for any id.
submit_job_unchecked(j) ==
  /\ Len(procs) < MaxProcs
  /\ _stop_listener' = start_listener_flag
  /\ _listener_thread' = start_listener_thread
  /\ procs' = Append(procs, NewProcess(j))
  /\ _processes' = Put(_processes, j, Len(procs) + 1)
  /\ UNCHANGED <<_jobs, _status_queue, issued, ret, hist, threads>>

submit_job(j) ==
  IF ~JobExists(j)
  THEN UNCHANGED vars
  ELSE /\ Len(procs) < MaxProcs
       /\ _stop_listener' = start_listener_flag
       /\ _listener_thread' = start_listener_thread
       /\ procs' = Append(procs, NewProcess(j))
       /\ _processes' = Put(_processes, j, Len(procs) + 1)
       /\ UNCHANGED <<_jobs, _status_queue, issued, ret, hist, threads>>

\* ------------------------------------------------------------ _worker_process
IsTerminalMsg(m) == m.status \in {COMPLETED, FAILED}

\* Process p is running and about to execute the statement named pc.
At(p, pc) == procs[p].pc = pc /\ ~procs[p].killed

\* queue.put(msg) by process p, which then continues at pc.
Record(m) ==
  IF m.job_id \in DOMAIN sent
  THEN [sent EXCEPT ![m.job_id] = [n |-> @.n + 1, last |-> m]]
  ELSE sent

WorkerPut(p, m, pc) ==
  /\ Len(_status_queue) < MaxQueue
  /\ _status_queue' = Append(_status_queue, m)
  /\ procs' = [procs EXCEPT ![p].pc = pc,
                            ![p].terminals = @ + (IF IsTerminalMsg(m) THEN 1 ELSE 0)]
  /\ sent' = Record(m)
  /\ UNCHANGED <<_jobs, _processes, _listener_thread, _stop_listener, issued, ret,
                 stopped, accepted, threads>>

\* except Exception as e: the FAILED message of lines 127-130; the function
\* returns and the process ends.
FailedMsg(j, e) == Msg(j, FAILED, 0, <<"Transcription failed: ", e>>, None, e)

WorkerRaise(p, e) == WorkerPut(p, FailedMsg(procs[p].job_id, e), "exited")

\* Step 1 (line 95)
W_SendLoading(p) ==
  /\ At(p, "send_loading")
  /\ WorkerPut(p, send_update(procs[p].job_id, LOADING_MODEL, 10,
                              <<"Loading Whisper model...">>), "load_model")

\* lines 97-103: the model loads and CONVERTING is sent
W_LoadModel(p) ==
  /\ At(p, "load_model")
  /\ WorkerPut(p, send_update(procs[p].job_id, CONVERTING, 30,
                              <<"Converting audio with ffmpeg...">>), "send_transcribing")

\* lines 97-100 raise
W_LoadModelFails(p, e) ==
  /\ At(p, "load_model")
  /\ WorkerRaise(p, e)

\* Step 3 (line 106)
W_SendTranscribing(p) ==
  /\ At(p, "send_transcribing")
  /\ WorkerPut(p, send_update(procs[p].job_id, TRANSCRIBING, 50,
                              <<"Transcribing audio...">>), "transcribe_file")

\* TqdmToQueue.update inside transcribe_file (lines 67-81); n only grows, so
\* pct never drops within one run.
W_TqdmUpdate(p, pct) ==
  /\ At(p, "transcribe_file")
  /\ procs[p].n < MaxSub
  /\ pct >= procs[p].pct
  /\ Len(_status_queue) < MaxQueue
  /\ LET m == send_update(procs[p].job_id, TRANSCRIBING, mapped_pct(pct),
                          <<"Transcribing: ", ToString(pct), "%">>) IN
       /\ _status_queue' = Append(_status_queue, m)
       /\ sent' = Record(m)
  /\ procs' = [procs EXCEPT ![p].n = @ + 1, ![p].pct = pct]
  /\ UNCHANGED <<_jobs, _processes, _listener_thread, _stop_listener, issued, ret,
                 stopped, accepted, threads>>

\* lines 108-123: transcribe_file returns, the response is built, COMPLETED is sent
W_Completed(p) ==
  /\ At(p, "transcribe_file")
  /\ WorkerPut(p, Msg(procs[p].job_id, COMPLETED, 100, <<"Transcription complete!">>,
                      Transcription, None), "cleanup")

\* lines 108-115 raise
W_TranscribeFails(p, e) ==
  /\ At(p, "transcribe_file")
  /\ WorkerRaise(p, e)

\* line 125: transcriber.cleanup() returns, the function returns and the
\* process ends
W_Cleanup(p) ==
  /\ At(p, "cleanup")
  /\ procs' = [procs EXCEPT ![p].pc = "exited"]
  /\ UNCHANGED <<_jobs, _processes, _status_queue, _listener_thread, _stop_listener,
                 issued, ret, hist, threads>>

\* line 125 raises: it is inside the try block, so lines 127-130 run
W_CleanupFails(p, e) ==
  /\ At(p, "cleanup")
  /\ WorkerRaise(p, e)

\* The place of a message in the sequence of lines 95-130: LOADING_MODEL,
\* CONVERTING, the TRANSCRIBING of line 106, a sub-progress message of line 79,
\* a terminal message.
MsgRank(m) ==
  CASE m.status = LOADING_MODEL -> 1
    [] m.status = CONVERTING -> 2
    [] m.status = TRANSCRIBING /\ m.message = <<"Transcribing audio...">> -> 3
    [] m.status = TRANSCRIBING /\ m.message # <<"Transcribing audio...">> -> 4
    [] OTHER -> 5

\* The rank of the last message a process has put, read off the statement it
\* has reached; 0 before the first.
LastRank(pr) ==
  CASE pr.pc = "send_loading" -> 0
    [] pr.pc = "load_model" -> 1
    [] pr.pc = "send_transcribing" -> 2
    [] pr.pc = "transcribe_file" -> IF pr.n = 0 THEN 3 ELSE 4
    [] OTHER -> 5

\* ---------------------------------------------------------- _update_job_state
\* Mutant: the update without line 191, the version is not bumped.
apply_update_no_bump(job, m) ==
  [job EXCEPT !.status = m.status,
              !.progress = m.progress,
              !.message = m.message,
              !.result = IF Truthy(m.result) THEN m.result ELSE @,
              !.error = IF Truthy(m.error) THEN m.error ELSE @]

\* Mutant: the update without line 185, the progress is kept.
apply_update_keeps_progress(job, m) ==
  [job EXCEPT !.status = m.status,
              !.message = m.message,
              !.result = IF Truthy(m.result) THEN m.result ELSE @,
              !.error = IF Truthy(m.error) THEN m.error ELSE @,
              !._version = @ + 1]

\* lines 184-191 on one job dict.
apply_update(job, m) ==
  [job EXCEPT !.status = m.status,
              !.progress = m.progress,
              !.message = m.message,
              !.result = IF Truthy(m.result) THEN m.result ELSE @,
              !.error = IF Truthy(m.error) THEN m.error ELSE @,
              !._version = @ + 1]

\* Mutant: lines 181-182 missing, a cancelled job is updated like any other.
update_accepted_no_cancel_check(jobs, m) == m.job_id \in DOMAIN jobs

\* lines 176-182: whether the message is applied to the store.
update_accepted(jobs, m) ==
  /\ m.job_id \in DOMAIN jobs
  /\ jobs[m.job_id].status # CANCELLED

\* Mutant: a terminal message removes the record it was applied to.
_update_job_state_drops_terminal(jobs, m) ==
  IF update_accepted(jobs, m)
  THEN IF m.status \in {COMPLETED, FAILED}
       THEN Pop(jobs, m.job_id)
       ELSE [jobs EXCEPT ![m.job_id] = apply_update(@, m)]
  ELSE jobs

\* Mutant: a message for an id that is not stored inserts a record.
_update_job_state_inserts(jobs, m) ==
  IF m.job_id \in DOMAIN jobs
  THEN IF jobs[m.job_id].status # CANCELLED
       THEN [jobs EXCEPT ![m.job_id] = apply_update(@, m)]
       ELSE jobs
  ELSE Put(jobs, m.job_id, [status |-> m.status, progress |-> m.progress,
                            message |-> m.message, _version |-> 1])

\* The store after _update_job_state(*m).
_update_job_state(jobs, m) ==
  IF update_accepted(jobs, m)
  THEN [jobs EXCEPT ![m.job_id] = apply_update(@, m)]
  ELSE jobs

\* lines 155-159: the process map after the listener handled m.
listener_release(processes, m) ==
  IF m.status \in {COMPLETED, FAILED} THEN Pop(processes, m.job_id) ELSE processes

\* ------------------------------------------------------ _status_queue_listener
\* Mutant: the newest message is taken first.
get_newest(q) == [msg |-> q[Len(q)], rest |-> SubSeq(q, 1, Len(q) - 1)]

\* _status_queue.get (line 150) on a non-empty queue: the oldest message, and
\* the queue it leaves.
get(q) == [msg |-> Head(q), rest |-> Tail(q)]

\* line 151: the item unpacks into the six names only if it is a 6-tuple;
\* any other item raises at the assignment, the except clause of line 163
\* logs it and the loop goes on.
unpacks(m) == DOMAIN m = DOMAIN NoMsg

\* One iteration of the loop that got a message (lines 147-164). The flag is
\* read again at the top of the loop, so a listener told to stop ends here.
Listen ==
  /\ _listener_thread = "alive"
  /\ lpc.pc = "idle"
  /\ _status_queue # <<>>
  /\ LET m == get(_status_queue).msg IN
       /\ _status_queue' = get(_status_queue).rest
       /\ IF unpacks(m)
          THEN /\ _jobs' = _update_job_state(_jobs, m)
               /\ _processes' = listener_release(_processes, m)
               /\ accepted' = IF update_accepted(_jobs, m)
                              THEN [accepted EXCEPT ![m.job_id] = @ + 1]
                              ELSE accepted
          ELSE UNCHANGED <<_jobs, _processes, accepted>>
  /\ _listener_thread' = IF _stop_listener THEN "dead" ELSE "alive"
  /\ UNCHANGED <<_stop_listener, procs, issued, stopped, sent, threads>>

ListenerRecv == Listen /\ UNCHANGED ret

\* The same iteration, with the item it got and what the lookup of line 176
\* found kept in ret.
ListenerRecv_ret ==
  /\ Listen
  /\ ret' = [job_id |-> get(_status_queue).msg.job_id,
             value |-> [item |-> get(_status_queue).msg,
                        found |-> get(_status_queue).msg.job_id \in DOMAIN _jobs]]

\* get() timed out (line 161) and the loop condition found the flag set.
ListenerExit ==
  /\ _listener_thread = "alive"
  /\ lpc.pc = "idle"
  /\ _stop_listener
  /\ _listener_thread' = "dead"
  /\ UNCHANGED <<_jobs, _processes, _status_queue, _stop_listener, procs, issued, ret,
                 hist, threads>>

\* ------------------------------------------------------------------ stop_job
Terminal == {COMPLETED, FAILED, CANCELLED}

\* Mutant: CANCELLED missing from the tuple of lines 252-256.
stop_job_result_recancels(jobs, j) ==
  /\ j \in DOMAIN jobs
  /\ jobs[j].status \notin {COMPLETED, FAILED}

\* lines 248-257: the value stop_job returns.
stop_job_result(jobs, j) ==
  /\ j \in DOMAIN jobs
  /\ jobs[j].status \notin Terminal

\* Mutant: line 262 as an assignment, the version restarts at 1.
mark_cancelled_resets_version(job) ==
  [job EXCEPT !.status = CANCELLED,
              !.message = <<"Job stopped by user">>,
              !._version = 1]

\* Mutant: the cancel also resets the progress.
mark_cancelled_zeroes_progress(job) ==
  [job EXCEPT !.status = CANCELLED,
              !.progress = 0,
              !.message = <<"Job stopped by user">>,
              !._version = @ + 1]

\* lines 260-262 on one job dict.
mark_cancelled(job) ==
  [job EXCEPT !.status = CANCELLED,
              !.message = <<"Job stopped by user">>,
              !._version = @ + 1]

\* line 266: p and p.is_alive()
has_live_process(j) == j \in DOMAIN _processes /\ is_alive(_processes[j])

\* lines 268-271: terminate(), join(timeout=1), kill() if still alive.
terminate_and_kill(ps, p) == [ps EXCEPT ![p].killed = TRUE]

\* stop_job(job_id) as one step; its return value is stop_job_result(_jobs, j).
StopJob(j) ==
  /\ cpc.pc = "idle"
  /\ IF stop_job_result(_jobs, j)
     THEN /\ _jobs' = [_jobs EXCEPT ![j] = mark_cancelled(@)]
          /\ stopped' = Put(stopped, j, _jobs'[j])
          /\ accepted' = [accepted EXCEPT ![j] = @ + 1]
          /\ sent' = Pop(sent, j)
          /\ IF has_live_process(j)
             THEN /\ procs' = terminate_and_kill(procs, _processes[j])
                  /\ _processes' = Pop(_processes, j)
             ELSE UNCHANGED <<procs, _processes>>
     ELSE UNCHANGED <<_jobs, hist, procs, _processes>>
  /\ UNCHANGED <<_status_queue, _listener_thread, _stop_listener, issued, threads>>

\* A call whose return value the caller drops, as cleanup_job does (line 302).
stop_job(j) == StopJob(j) /\ UNCHANGED ret

\* A call whose return value the caller keeps.
stop_job_ret(j) ==
  /\ StopJob(j)
  /\ ret' = [job_id |-> j, value |-> stop_job_result(_jobs, j)]

\* --------------------------------------------------------------- cleanup_job
\* stop_job(job_id), its result dropped, then _jobs.pop(job_id, None).
cleanup_job(j) ==
  /\ cpc.pc = "idle"
  /\ _jobs' = Pop(_jobs, j)
  /\ stopped' = Pop(stopped, j)
  /\ accepted' = Pop(accepted, j)
  /\ sent' = Pop(sent, j)
  /\ IF stop_job_result(_jobs, j) /\ has_live_process(j)
     THEN /\ procs' = terminate_and_kill(procs, _processes[j])
          /\ _processes' = Pop(_processes, j)
     ELSE UNCHANGED <<procs, _processes>>
  /\ UNCHANGED <<_status_queue, _listener_thread, _stop_listener, issued, ret,
                 threads>>

\* ---------------------------------------------------------- shutdown_executor
\* The processes of the handle map that are alive (lines 312-313).
LiveHandles == {p \in DOMAIN procs : \E j \in DOMAIN _processes :
                                       _processes[j] = p /\ is_alive(p)}

\* lines 309-315: the flag is set; each live process of the map gets
\* terminate() and join(timeout=1), and no kill(): a process in `ignoring`
\* does not exit on SIGTERM within the second. No handle is popped. The caller
\* goes on to join the listener; cpc.live keeps the processes alive at the call.
shutdown_executor(ignoring) ==
  /\ cpc.pc = "idle"
  /\ ignoring \subseteq LiveHandles
  /\ _stop_listener' = TRUE
  /\ procs' = [p \in DOMAIN procs |->
                 IF p \in LiveHandles \ ignoring
                 THEN [procs[p] EXCEPT !.killed = TRUE] ELSE procs[p]]
  /\ cpc' = [pc |-> "join", live |-> {p \in DOMAIN procs : is_alive(p)}]
  /\ UNCHANGED <<_jobs, _processes, _status_queue, _listener_thread, issued, ret,
                 hist, lpc, starters, stream>>

\* lines 317-320: the listener thread, if there is a live one, is joined (its
\* get() times out after 1.0 s, the join after 2 s), and the call returns.
shutdown_return ==
  /\ cpc.pc = "join"
  /\ _listener_thread # "alive"
  /\ cpc' = IdleC
  /\ UNCHANGED <<_jobs, _processes, _status_queue, _listener_thread, _stop_listener,
                 procs, issued, ret, hist, lpc, starters, stream>>

\* ------------------------------------------------------------- read accessors
get_job(j) == IF JobExists(j) THEN _jobs[j] ELSE None

\* JobProgress(...) of the stored dict, or None.
get_job_progress(j) ==
  IF JobExists(j)
  THEN [job_id |-> _jobs[j].job_id, status |-> _jobs[j].status,
        progress |-> _jobs[j].progress, message |-> _jobs[j].message,
        result |-> _jobs[j].result, error |-> _jobs[j].error]
  ELSE None

\* Mutant: an unknown id reads as version 0.
get_job_version_unknown_zero(j) == IF JobExists(j) THEN _jobs[j]._version ELSE 0

get_job_version(j) == IF JobExists(j) THEN _jobs[j]._version ELSE -1

\* ---------------------------------------------------------- the two writers
\* lines 248-262 on the store: what stop_job(j) leaves in _jobs.
stop_job_jobs(jobs, j) ==
  IF stop_job_result(jobs, j) THEN [jobs EXCEPT ![j] = mark_cancelled(@)] ELSE jobs

\* The messages a worker of job j can put (lines 79-81, 95, 103, 106, 118-123,
\* 128-130).
WorkerMsgs(j) ==
  {send_update(j, LOADING_MODEL, 10, <<"Loading Whisper model...">>),
   send_update(j, CONVERTING, 30, <<"Converting audio with ffmpeg...">>),
   send_update(j, TRANSCRIBING, 50, <<"Transcribing audio...">>),
   Msg(j, COMPLETED, 100, <<"Transcription complete!">>, Transcription, None)}
  \cup {send_update(j, TRANSCRIBING, mapped_pct(pct),
                    <<"Transcribing: ", ToString(pct), "%">>) : pct \in SubPcts}
  \cup {FailedMsg(j, e) : e \in Failures}

\* ---------------------------------------------------------------------- Spec
\* The job store, the workers and the listener; every call is one step.
Next ==
  \/ \E j \in JobIds, l \in Languages : create_job(j, l)
  \/ \E j \in JobIds : submit_job(j)
  \/ \E j \in JobIds : stop_job(j)
  \/ \E j \in JobIds : cleanup_job(j)
  \/ \E p \in DOMAIN procs : W_SendLoading(p)
  \/ \E p \in DOMAIN procs : W_LoadModel(p)
  \/ \E p \in DOMAIN procs, e \in Failures : W_LoadModelFails(p, e)
  \/ \E p \in DOMAIN procs : W_SendTranscribing(p)
  \/ \E p \in DOMAIN procs, pct \in SubPcts : W_TqdmUpdate(p, pct)
  \/ \E p \in DOMAIN procs : W_Completed(p)
  \/ \E p \in DOMAIN procs, e \in Failures : W_TranscribeFails(p, e)
  \/ \E p \in DOMAIN procs : W_Cleanup(p)
  \/ \E p \in DOMAIN procs, e \in Failures : W_CleanupFails(p, e)
  \/ ListenerRecv

Spec == Init /\ [][Next]_vars

\* The same program with the caller keeping what stop_job returns.
NextRet ==
  \/ \E j \in JobIds, l \in Languages : create_job(j, l)
  \/ \E j \in JobIds : submit_job(j)
  \/ \E j \in JobIds : stop_job_ret(j)
  \/ \E j \in JobIds : cleanup_job(j)
  \/ \E p \in DOMAIN procs : W_SendLoading(p)
  \/ \E p \in DOMAIN procs : W_LoadModel(p)
  \/ \E p \in DOMAIN procs, e \in Failures : W_LoadModelFails(p, e)
  \/ \E p \in DOMAIN procs : W_SendTranscribing(p)
  \/ \E p \in DOMAIN procs, pct \in SubPcts : W_TqdmUpdate(p, pct)
  \/ \E p \in DOMAIN procs : W_Completed(p)
  \/ \E p \in DOMAIN procs, e \in Failures : W_TranscribeFails(p, e)
  \/ \E p \in DOMAIN procs : W_Cleanup(p)
  \/ \E p \in DOMAIN procs, e \in Failures : W_CleanupFails(p, e)
  \/ ListenerRecv

SpecRet == Init /\ [][NextRet]_vars

\* ---------------------------------------------------------------- upload
\* api.py lines 80-86: the upload handler creates a job and submits it, once;
\* the id is known to other callers when the handler has returned.
upload(j, language) ==
  /\ cpc.pc = "idle"
  /\ j \in uuid4_hex12
  /\ Cardinality(issued) < MaxUploads
  /\ Len(procs) < MaxProcs
  /\ _jobs' = Put(_jobs, j, NewJob(j, "session", "upload.mp4", "video.mp4", language))
  /\ issued' = issued \cup {j}
  /\ accepted' = Put(accepted, j, 0)
  /\ sent' = Put(sent, j, [n |-> 0, last |-> NoMsg])
  /\ _stop_listener' = start_listener_flag
  /\ _listener_thread' = start_listener_thread
  /\ procs' = Append(procs, NewProcess(j))
  /\ _processes' = Put(_processes, j, Len(procs) + 1)
  /\ UNCHANGED <<_status_queue, ret, stopped, threads>>

\* -------------------------------------------------------------------- SpecSD
\* One uploaded job, its worker, the listener, cancel, cleanup and the
\* application's shutdown (main.py line 27); every call is one step, except
\* that shutdown_executor returns when its join of the listener has ended.
NextSD ==
  \/ \E j \in JobIds, l \in Languages : upload(j, l)
  \/ \E j \in JobIds : stop_job(j)
  \/ \E j \in JobIds : cleanup_job(j)
  \/ \E p \in DOMAIN procs : W_SendLoading(p)
  \/ \E p \in DOMAIN procs : W_LoadModel(p)
  \/ \E p \in DOMAIN procs, e \in Failures : W_LoadModelFails(p, e)
  \/ \E p \in DOMAIN procs : W_SendTranscribing(p)
  \/ \E p \in DOMAIN procs, pct \in SubPcts : W_TqdmUpdate(p, pct)
  \/ \E p \in DOMAIN procs : W_Completed(p)
  \/ \E p \in DOMAIN procs, e \in Failures : W_TranscribeFails(p, e)
  \/ \E p \in DOMAIN procs : W_Cleanup(p)
  \/ \E p \in DOMAIN procs, e \in Failures : W_CleanupFails(p, e)
  \/ ListenerRecv
  \/ ListenerExit
  \/ \E ignoring \in SUBSET LiveHandles : shutdown_executor(ignoring)
  \/ shutdown_return

SpecSD == Init /\ [][NextSD]_vars

\* SpecSD with the worker processes and the listener thread scheduled fairly:
\* a statement that stays enabled is executed.
FairSD ==
  /\ WF_vars(\E p \in DOMAIN procs : W_SendLoading(p))
  /\ WF_vars(\E p \in DOMAIN procs : W_LoadModel(p))
  /\ WF_vars(\E p \in DOMAIN procs : W_SendTranscribing(p))
  /\ WF_vars(\E p \in DOMAIN procs : W_Completed(p))
  /\ WF_vars(\E p \in DOMAIN procs : W_Cleanup(p))
  /\ WF_vars(ListenerRecv)
  /\ WF_vars(ListenerExit)
  /\ WF_vars(shutdown_return)

SpecSDLive == SpecSD /\ FairSD

\* -------------------------------------------------------------------- SpecRW
\* The listener thread and a caller of stop_job as two threads of the
\* orchestrator process. job_manager.py takes no lock, so a thread switch can
\* fall between any two statements; each step below is one statement (one
\* read or one write of the shared job dict; line 191 and line 262 are a read
\* followed by a write).

\* line 150: the listener takes a message and calls _update_job_state
L_Get ==
  /\ _listener_thread = "alive"
  /\ lpc.pc = "idle"
  /\ _status_queue # <<>>
  /\ lpc' = [pc |-> "lookup", msg |-> get(_status_queue).msg]
  /\ _status_queue' = get(_status_queue).rest
  /\ UNCHANGED <<_jobs, _processes, _listener_thread, _stop_listener, procs, issued,
                 ret, hist, cpc, starters, stream>>

\* lines 176-182: job = _jobs.get(job_id); the two early returns
L_Check ==
  /\ lpc.pc = "lookup"
  /\ lpc' = [lpc EXCEPT !.pc = IF update_accepted(_jobs, lpc.msg)
                               THEN "status" ELSE "release"]
  /\ UNCHANGED <<_jobs, _processes, _status_queue, _listener_thread, _stop_listener,
                 procs, issued, ret, hist, cpc, starters, stream>>

\* One of the writes of lines 184-190 by the listener, then on to pc.
L_Write(at, field, value, pc) ==
  /\ lpc.pc = at
  /\ _jobs' = [_jobs EXCEPT ![lpc.msg.job_id][field] = value]
  /\ lpc' = [lpc EXCEPT !.pc = pc]
  /\ UNCHANGED <<_processes, _status_queue, _listener_thread, _stop_listener,
                 procs, issued, ret, hist, cpc, starters, stream>>

L_Status == L_Write("status", "status", lpc.msg.status, "progress")
L_Progress == L_Write("progress", "progress", lpc.msg.progress, "message")
L_Message == L_Write("message", "message", lpc.msg.message, "result")
L_Result ==
  L_Write("result", "result",
          IF Truthy(lpc.msg.result) THEN lpc.msg.result
          ELSE _jobs[lpc.msg.job_id].result, "error")
L_Error ==
  L_Write("error", "error",
          IF Truthy(lpc.msg.error) THEN lpc.msg.error
          ELSE _jobs[lpc.msg.job_id].error, "version")

\* line 191, the read of job["_version"]
L_ReadVersion ==
  /\ lpc.pc = "version"
  /\ lpc' = [pc |-> "bump", msg |-> lpc.msg, v |-> _jobs[lpc.msg.job_id]._version]
  /\ UNCHANGED <<_jobs, _processes, _status_queue, _listener_thread, _stop_listener,
                 procs, issued, ret, hist, cpc, starters, stream>>

\* line 191, the write of job["_version"]
L_WriteVersion ==
  /\ lpc.pc = "bump"
  /\ _jobs' = [_jobs EXCEPT ![lpc.msg.job_id]._version = lpc.v + 1]
  /\ accepted' = [accepted EXCEPT ![lpc.msg.job_id] = @ + 1]
  /\ lpc' = [pc |-> "release", msg |-> lpc.msg]
  /\ UNCHANGED <<_processes, _status_queue, _listener_thread, _stop_listener,
                 procs, issued, ret, stopped, sent, cpc, starters, stream>>

\* lines 155-159, and the loop starts over
L_Release ==
  /\ lpc.pc = "release"
  /\ _processes' = listener_release(_processes, lpc.msg)
  /\ lpc' = IdleL
  /\ UNCHANGED <<_jobs, _status_queue, _listener_thread, _stop_listener, procs,
                 issued, ret, hist, cpc, starters, stream>>

\* stop_job(j) is called
C_Call(j) ==
  /\ cpc.pc = "idle"
  /\ cpc' = [pc |-> "check", job_id |-> j]
  /\ UNCHANGED <<_jobs, _processes, _status_queue, _listener_thread, _stop_listener,
                 procs, issued, ret, hist, lpc, starters, stream>>

\* lines 248-257: the two early returns
C_Check ==
  /\ cpc.pc = "check"
  /\ cpc' = IF stop_job_result(_jobs, cpc.job_id)
            THEN [cpc EXCEPT !.pc = "status"] ELSE IdleC
  /\ UNCHANGED <<_jobs, _processes, _status_queue, _listener_thread, _stop_listener,
                 procs, issued, ret, hist, lpc, starters, stream>>

\* One of the writes of lines 260-261 by the caller, then on to pc.
C_Write(at, field, value, pc) ==
  /\ cpc.pc = at
  /\ _jobs' = [_jobs EXCEPT ![cpc.job_id][field] = value]
  /\ cpc' = [cpc EXCEPT !.pc = pc]
  /\ UNCHANGED <<_processes, _status_queue, _listener_thread, _stop_listener,
                 procs, issued, ret, hist, lpc, starters, stream>>

C_Status == C_Write("status", "status", CANCELLED, "message")
C_Message == C_Write("message", "message", <<"Job stopped by user">>, "version")

\* line 262, the read of job["_version"]
C_ReadVersion ==
  /\ cpc.pc = "version"
  /\ cpc' = [pc |-> "bump", job_id |-> cpc.job_id, v |-> _jobs[cpc.job_id]._version]
  /\ UNCHANGED <<_jobs, _processes, _status_queue, _listener_thread, _stop_listener,
                 procs, issued, ret, hist, lpc, starters, stream>>

\* line 262, the write of job["_version"]
C_WriteVersion ==
  /\ cpc.pc = "bump"
  /\ _jobs' = [_jobs EXCEPT ![cpc.job_id]._version = cpc.v + 1]
  /\ accepted' = [accepted EXCEPT ![cpc.job_id] = @ + 1]
  /\ cpc' = [pc |-> "terminate", job_id |-> cpc.job_id]
  /\ UNCHANGED <<_processes, _status_queue, _listener_thread, _stop_listener,
                 procs, issued, ret, stopped, sent, lpc, starters, stream>>

\* lines 265-275: the worker is terminated and stop_job returns True (the
\* job enters `stopped`)
C_Terminate ==
  /\ cpc.pc = "terminate"
  /\ IF has_live_process(cpc.job_id)
     THEN /\ procs' = terminate_and_kill(procs, _processes[cpc.job_id])
          /\ _processes' = Pop(_processes, cpc.job_id)
     ELSE UNCHANGED <<procs, _processes>>
  /\ stopped' = Put(stopped, cpc.job_id, _jobs[cpc.job_id])
  /\ sent' = Pop(sent, cpc.job_id)
  /\ cpc' = IdleC
  /\ UNCHANGED <<_jobs, _status_queue, _listener_thread, _stop_listener, issued,
                 ret, accepted, lpc, starters, stream>>

NextRW ==
  \/ \E j \in JobIds, l \in Languages : upload(j, l)
  \/ \E p \in DOMAIN procs : W_SendLoading(p)
  \/ \E p \in DOMAIN procs : W_LoadModel(p)
  \/ \E p \in DOMAIN procs, e \in Failures : W_LoadModelFails(p, e)
  \/ \E p \in DOMAIN procs : W_SendTranscribing(p)
  \/ \E p \in DOMAIN procs, pct \in SubPcts : W_TqdmUpdate(p, pct)
  \/ \E p \in DOMAIN procs : W_Completed(p)
  \/ \E p \in DOMAIN procs, e \in Failures : W_TranscribeFails(p, e)
  \/ \E p \in DOMAIN procs : W_Cleanup(p)
  \/ \E p \in DOMAIN procs, e \in Failures : W_CleanupFails(p, e)
  \/ L_Get
  \/ L_Check
  \/ L_Status
  \/ L_Progress
  \/ L_Message
  \/ L_Result
  \/ L_Error
  \/ L_ReadVersion
  \/ L_WriteVersion
  \/ L_Release
  \/ \E j \in JobIds : C_Call(j)
  \/ C_Check
  \/ C_Status
  \/ C_Message
  \/ C_ReadVersion
  \/ C_WriteVersion
  \/ C_Terminate

SpecRW == Init /\ [][NextRW]_vars

\* -------------------------------------------------------------------- SpecSL
\* submit_job called from several threads of the orchestrator process at
\* once. _start_listener_if_needed takes no lock, so a thread switch can fall
\* between its statements; each step below is one of them.

\* lines 221-226: submit_job(j) is called by thread t and finds the job
S_Call(t, j) ==
  /\ spc[t].pc = "idle"
  /\ Len(procs) + Cardinality({u \in Callers : spc[u].pc # "idle"}) < MaxProcs
  /\ IF ~JobExists(j)
     THEN UNCHANGED vars
     ELSE /\ spc' = [spc EXCEPT ![t] = [pc |-> "check", job_id |-> j]]
          /\ UNCHANGED <<_jobs, _processes, _status_queue, _listener_thread,
                         _stop_listener, procs, issued, ret, hist, lpc, cpc, listeners,
                 stream>>

\* line 136: if _listener_thread is None or not _listener_thread.is_alive()
S_Check(t) ==
  /\ spc[t].pc = "check"
  /\ spc' = [spc EXCEPT ![t].pc = IF _listener_thread \in {"None", "dead"}
                                   THEN "clear" ELSE "spawn"]
  /\ UNCHANGED <<_jobs, _processes, _status_queue, _listener_thread, _stop_listener,
                 procs, issued, ret, hist, lpc, cpc, listeners,
                 stream>>

\* line 137: _stop_listener.clear()
S_Clear(t) ==
  /\ spc[t].pc = "clear"
  /\ _stop_listener' = FALSE
  /\ spc' = [spc EXCEPT ![t].pc = "start"]
  /\ UNCHANGED <<_jobs, _processes, _status_queue, _listener_thread, procs, issued,
                 ret, hist, lpc, cpc, listeners,
                 stream>>

\* lines 138-141: a new Thread is bound to the global and started
S_Start(t) ==
  /\ spc[t].pc = "start"
  /\ _listener_thread' = "alive"
  /\ listeners' = listeners + 1
  /\ spc' = [spc EXCEPT ![t].pc = "spawn"]
  /\ UNCHANGED <<_jobs, _processes, _status_queue, _stop_listener, procs, issued,
                 ret, hist, lpc, cpc,
                 stream>>

\* lines 230-243: the worker process is started and its handle recorded
S_Spawn(t) ==
  /\ spc[t].pc = "spawn"
  /\ procs' = Append(procs, NewProcess(spc[t].job_id))
  /\ _processes' = Put(_processes, spc[t].job_id, Len(procs) + 1)
  /\ spc' = [spc EXCEPT ![t] = IdleS]
  /\ UNCHANGED <<_jobs, _status_queue, _listener_thread, _stop_listener, issued,
                 ret, hist, lpc, cpc, listeners,
                 stream>>

NextSL ==
  \/ \E j \in JobIds, l \in Languages : create_job(j, l)
  \/ \E t \in Callers, j \in JobIds : S_Call(t, j)
  \/ \E t \in Callers : S_Check(t)
  \/ \E t \in Callers : S_Clear(t)
  \/ \E t \in Callers : S_Start(t)
  \/ \E t \in Callers : S_Spawn(t)
  \/ \E p \in DOMAIN procs : W_SendLoading(p)
  \/ \E p \in DOMAIN procs : W_LoadModel(p)
  \/ \E p \in DOMAIN procs, e \in Failures : W_LoadModelFails(p, e)
  \/ \E p \in DOMAIN procs : W_SendTranscribing(p)
  \/ \E p \in DOMAIN procs, pct \in SubPcts : W_TqdmUpdate(p, pct)
  \/ \E p \in DOMAIN procs : W_Completed(p)
  \/ \E p \in DOMAIN procs, e \in Failures : W_TranscribeFails(p, e)
  \/ \E p \in DOMAIN procs : W_Cleanup(p)
  \/ \E p \in DOMAIN procs, e \in Failures : W_CleanupFails(p, e)
  \/ ListenerRecv

SpecSL == Init /\ [][NextSL]_vars

\* ------------------------------------------------------------------ SpecSnap
\* A caller that keeps what get_job returned. get_job returns
\* _jobs.get(job_id): the stored dict object itself, without a copy. ret.job_id
\* names the object the caller holds and ret.value is what its fields were
\* when the call returned.
get_job_call(j) ==
  /\ cpc.pc = "idle"
  /\ IF ~JobExists(j)
     THEN UNCHANGED vars
     ELSE /\ ret' = [job_id |-> j, value |-> get_job(j)]
          /\ UNCHANGED <<_jobs, _processes, _status_queue, _listener_thread,
                         _stop_listener, procs, issued, hist, threads>>

\* The fields of the object the caller holds, read now (api.py lines 158-161
\* read job["status"] and job["result"] from it): the object is the stored
\* dict, so they are the fields of the store's entry.
held_job == _jobs[ret.job_id]

NextSnap ==
  \/ \E j \in JobIds, l \in Languages : upload(j, l)
  \/ \E j \in JobIds : get_job_call(j)
  \/ \E j \in JobIds : stop_job(j)
  \/ \E p \in DOMAIN procs : W_SendLoading(p)
  \/ \E p \in DOMAIN procs : W_LoadModel(p)
  \/ \E p \in DOMAIN procs, e \in Failures : W_LoadModelFails(p, e)
  \/ \E p \in DOMAIN procs : W_SendTranscribing(p)
  \/ \E p \in DOMAIN procs, pct \in SubPcts : W_TqdmUpdate(p, pct)
  \/ \E p \in DOMAIN procs : W_Completed(p)
  \/ \E p \in DOMAIN procs, e \in Failures : W_TranscribeFails(p, e)
  \/ \E p \in DOMAIN procs : W_Cleanup(p)
  \/ \E p \in DOMAIN procs, e \in Failures : W_CleanupFails(p, e)
  \/ ListenerRecv

SpecSnap == Init /\ [][NextSnap]_vars

\* -------------------------------------------------------------------- SpecID
\* create_job as written: uuid.uuid4().hex[:12] is 48 random bits and line 202
\* compares it with nothing, so the call can return any id, one that is stored
\* or was stored before included; line 203 assigns _jobs[job_id] whatever is
\* there. The other specifications take the id to be fresh (uuid4_hex12).
uuid4_hex12_any == JobIds

\* api.py lines 80-86 with that create_job: the job is created and submitted.
upload_hex(j, language) ==
  /\ cpc.pc = "idle"
  /\ j \in uuid4_hex12_any
  /\ Len(procs) < MaxProcs
  /\ _jobs' = Put(_jobs, j, NewJob(j, "session", "upload.mp4", "video.mp4", language))
  /\ issued' = issued \cup {j}
  /\ stopped' = Pop(stopped, j)
  /\ accepted' = Put(accepted, j, 0)
  /\ sent' = Put(sent, j, [n |-> 0, last |-> NoMsg])
  /\ _stop_listener' = start_listener_flag
  /\ _listener_thread' = start_listener_thread
  /\ procs' = Append(procs, NewProcess(j))
  /\ _processes' = Put(_processes, j, Len(procs) + 1)
  /\ UNCHANGED <<_status_queue, ret, threads>>

NextID ==
  \/ \E j \in JobIds, l \in Languages : upload_hex(j, l)
  \/ \E j \in JobIds : cleanup_job(j)
  \/ \E p \in DOMAIN procs : W_SendLoading(p)
  \/ \E p \in DOMAIN procs : W_LoadModel(p)
  \/ \E p \in DOMAIN procs, e \in Failures : W_LoadModelFails(p, e)
  \/ \E p \in DOMAIN procs : W_SendTranscribing(p)
  \/ \E p \in DOMAIN procs, pct \in SubPcts : W_TqdmUpdate(p, pct)
  \/ \E p \in DOMAIN procs : W_Completed(p)
  \/ \E p \in DOMAIN procs, e \in Failures : W_TranscribeFails(p, e)
  \/ \E p \in DOMAIN procs : W_Cleanup(p)
  \/ \E p \in DOMAIN procs, e \in Failures : W_CleanupFails(p, e)
  \/ ListenerRecv

SpecID == Init /\ [][NextID]_vars

\* ---------------------------------------------------------------- SpecStream
\* api.py lines 99-132. job_stream answers 404 for an unknown id and returns
\* the generator otherwise; stream.status is the status of the latest event
\* the generator yielded.
job_stream(j) ==
  /\ cpc.pc = "idle"
  /\ stream.pc = "none"
  /\ IF ~JobExists(j)
     THEN UNCHANGED vars
     ELSE /\ stream' = [pc |-> "polling", job_id |-> j, last_version |-> -1,
                        status |-> None]
          /\ UNCHANGED <<_jobs, _processes, _status_queue, _listener_thread,
                         _stop_listener, procs, issued, ret, hist, lpc, cpc, starters>>

\* The generator after one iteration of the loop of lines 114-132, the sleep
\* included; disconnected is what request.is_disconnected() returned.
event_generator(s, disconnected) ==
  IF disconnected
  THEN [s EXCEPT !.pc = "closed"]
  ELSE LET current_version == get_job_version(s.job_id)
           progress == get_job_progress(s.job_id)
       IN  IF current_version = s.last_version
           THEN s
           ELSE IF ~JobExists(s.job_id)
                THEN [s EXCEPT !.last_version = current_version]
                ELSE [s EXCEPT !.last_version = current_version,
                               !.status = progress.status,
                               !.pc = IF progress.status \in {COMPLETED, FAILED}
                                      THEN "closed" ELSE "polling"]

stream_poll(disconnected) ==
  /\ stream.pc = "polling"
  /\ stream' = event_generator(stream, disconnected)
  /\ UNCHANGED <<_jobs, _processes, _status_queue, _listener_thread,
                 _stop_listener, procs, issued, ret, hist, lpc, cpc, starters>>

NextStream ==
  \/ \E j \in JobIds, l \in Languages : upload(j, l)
  \/ \E j \in JobIds : job_stream(j)
  \/ \E d \in BOOLEAN : stream_poll(d)
  \/ \E j \in JobIds : stop_job(j)
  \/ \E j \in JobIds : cleanup_job(j)
  \/ \E p \in DOMAIN procs : W_SendLoading(p)
  \/ \E p \in DOMAIN procs : W_LoadModel(p)
  \/ \E p \in DOMAIN procs, e \in Failures : W_LoadModelFails(p, e)
  \/ \E p \in DOMAIN procs : W_SendTranscribing(p)
  \/ \E p \in DOMAIN procs, pct \in SubPcts : W_TqdmUpdate(p, pct)
  \/ \E p \in DOMAIN procs : W_Completed(p)
  \/ \E p \in DOMAIN procs, e \in Failures : W_TranscribeFails(p, e)
  \/ \E p \in DOMAIN procs : W_Cleanup(p)
  \/ \E p \in DOMAIN procs, e \in Failures : W_CleanupFails(p, e)
  \/ ListenerRecv

SpecStream == Init /\ [][NextStream]_vars

\* ------------------------------------------------------------------- SpecPct
\* TqdmToQueue.update (lines 67-81) on its own: pct = int(n / total * 100)
\* with 0 <= n <= total is an int in 0..100; ret keeps the percentage and the
\* message that send_update puts for it.
Pcts == 0..MaxPct

TqdmToQueue_update(pct) ==
  /\ ret' = [job_id |-> 0, pct |-> pct,
             value |-> send_update(0, TRANSCRIBING, mapped_pct(pct),
                                   <<"Transcribing: ", ToString(pct), "%">>)]
  /\ UNCHANGED <<_jobs, _processes, _status_queue, _listener_thread,
                 _stop_listener, procs, issued, hist, threads>>

NextPct == \E pct \in Pcts : TqdmToQueue_update(pct)

SpecPct == Init /\ [][NextPct]_vars

\* ------------------------------------------------------------------- SpecLsn
\* Jobs that are removed while their workers still report: the listener gets
\* messages for ids that are no longer stored.
NextLsn ==
  \/ \E j \in JobIds, l \in Languages : create_job(j, l)
  \/ \E j \in JobIds : submit_job(j)
  \/ \E j \in JobIds : cleanup_job(j)
  \/ \E p \in DOMAIN procs : W_SendLoading(p)
  \/ \E p \in DOMAIN procs : W_LoadModel(p)
  \/ \E p \in DOMAIN procs, e \in Failures : W_LoadModelFails(p, e)
  \/ \E p \in DOMAIN procs : W_SendTranscribing(p)
  \/ \E p \in DOMAIN procs, pct \in SubPcts : W_TqdmUpdate(p, pct)
  \/ \E p \in DOMAIN procs : W_Completed(p)
  \/ \E p \in DOMAIN procs, e \in Failures : W_TranscribeFails(p, e)
  \/ \E p \in DOMAIN procs : W_Cleanup(p)
  \/ \E p \in DOMAIN procs, e \in Failures : W_CleanupFails(p, e)
  \/ ListenerRecv_ret

SpecLsn == Init /\ [][NextLsn]_vars

\* ------------------------------------------------------------------- SpecBad
\* Items on the status queue that no worker of this module sends (the queue is
\* a module global, line 31): a tuple of two fields, which line 151 cannot
\* unpack, and a 6-tuple whose status is a plain string and no JobStatus
\* member. For the latter _update_job_state runs lines 176-191 like for any
\* message; status.value at line 192 then raises AttributeError, which the
\* listener catches at line 163.
Pair(j, s) == [job_id |-> j, status |-> s]

Items(j) ==
  {Pair(j, LOADING_MODEL), Msg(j, "BOGUS", 0, <<"?">>, None, None)}

Malformed(m) == ~unpacks(m) \/ m.status \notin JobStatus

\* _status_queue.put(item) by code other than _worker_process.
put_item(m) ==
  /\ Len(_status_queue) < MaxQueue
  /\ \A j \in DOMAIN _jobs : _jobs[j]._version < MaxVersion
  /\ _status_queue' = Append(_status_queue, m)
  /\ UNCHANGED <<_jobs, _processes, _listener_thread, _stop_listener, procs,
                 issued, ret, hist, threads>>

NextBad ==
  \/ \E j \in JobIds, l \in Languages : upload(j, l)
  \/ \E j \in JobIds : \E m \in Items(j) : put_item(m)
  \/ \E p \in DOMAIN procs : W_SendLoading(p)
  \/ \E p \in DOMAIN procs : W_LoadModel(p)
  \/ \E p \in DOMAIN procs, e \in Failures : W_LoadModelFails(p, e)
  \/ \E p \in DOMAIN procs : W_SendTranscribing(p)
  \/ \E p \in DOMAIN procs, pct \in SubPcts : W_TqdmUpdate(p, pct)
  \/ \E p \in DOMAIN procs : W_Completed(p)
  \/ \E p \in DOMAIN procs, e \in Failures : W_TranscribeFails(p, e)
  \/ \E p \in DOMAIN procs : W_Cleanup(p)
  \/ \E p \in DOMAIN procs, e \in Failures : W_CleanupFails(p, e)
  \/ ListenerRecv

SpecBad == Init /\ [][NextBad]_vars

\* -------------------------------------------------------------------- SpecUp
\* submit_job called by request handlers while, or after, shutdown_executor
\* runs in another thread: the listener told to stop is alive until its get()
\* returns or times out (up to 1.0 s, line 150).
NextUp ==
  \/ \E j \in JobIds, l \in Languages : create_job(j, l)
  \/ \E j \in JobIds : submit_job(j)
  \/ \E p \in DOMAIN procs : W_SendLoading(p)
  \/ \E p \in DOMAIN procs : W_LoadModel(p)
  \/ \E p \in DOMAIN procs, e \in Failures : W_LoadModelFails(p, e)
  \/ \E p \in DOMAIN procs : W_SendTranscribing(p)
  \/ \E p \in DOMAIN procs, pct \in SubPcts : W_TqdmUpdate(p, pct)
  \/ \E p \in DOMAIN procs : W_Completed(p)
  \/ \E p \in DOMAIN procs, e \in Failures : W_TranscribeFails(p, e)
  \/ \E p \in DOMAIN procs : W_Cleanup(p)
  \/ \E p \in DOMAIN procs, e \in Failures : W_CleanupFails(p, e)
  \/ ListenerRecv
  \/ ListenerExit
  \/ \E ignoring \in SUBSET LiveHandles : shutdown_executor(ignoring)
  \/ shutdown_return

SpecUp == Init /\ [][NextUp]_vars

\* ==================================================================== claims
\* C2: once a job's status is COMPLETED or FAILED, no later step changes its
\* status, result or error while the record is in the store.
C2_TerminalSticky ==
  [][\A j \in JobIds :
       (j \in DOMAIN _jobs /\ j \in DOMAIN _jobs' /\ _jobs[j].status \in {COMPLETED, FAILED})
         => /\ _jobs'[j].status = _jobs[j].status
            /\ _jobs'[j].result = _jobs[j].result
            /\ _jobs'[j].error = _jobs[j].error]_vars

\* C3: every message the listener receives for a CANCELLED job is discarded:
\* the record stays what it was when stop_job returned True (status, progress,
\* message, result, error and version), so a job cancelled at version 0 keeps
\* version 1.
C3_CancelledDiscards ==
  \A j \in DOMAIN stopped : JobExists(j) => _jobs[j] = stopped[j]

\* A job cancelled before any message was applied (version 1), whose worker
\* had put a message that the listener has since taken from the queue.
C3_Witness ==
  \E j \in DOMAIN stopped :
    /\ JobExists(j)
    /\ stopped[j]._version = 1
    /\ _jobs[j]._version = 1
    /\ \E p \in ProcsOf(j) : HasPut(p)
    /\ Pending(j) = {}

\* C5: submit_job on a job that is not QUEUED spawns no worker and records no
\* handle.
C5_SubmitNonQueuedNoop ==
  [][\A j \in JobIds :
       (JobExists(j) /\ _jobs[j].status # QUEUED /\ submit_job(j))
         => UNCHANGED <<procs, _processes>>]_vars

\* C6: at most one live worker process exists for any job id.
C6_OneLiveWorker ==
  \A j \in JobIds : Cardinality({p \in ProcsOf(j) : is_alive(p)}) <= 1

C9_VersionNeverLower ==
  [][\A j \in JobIds : get_job_version(j)' >= get_job_version(j)]_vars

\* C9 amended: while the record of a job stays in the store, get_job_version
\* never returns less than it returned before.
C9_VersionNeverLowerWhileStored ==
  [][\A j \in JobIds :
       (j \in DOMAIN _jobs /\ j \in DOMAIN _jobs')
         => get_job_version(j)' >= get_job_version(j)]_vars

\* A job whose version was raised by the listener and then by stop_job.
C9_Witness ==
  \E j \in DOMAIN stopped : JobExists(j) /\ get_job_version(j) >= 3

C1_CancelVisible ==
  \A j \in DOMAIN stopped : JobExists(j) => get_job_progress(j).status = CANCELLED

\* C4: stop_job on a job whose status is COMPLETED, FAILED or CANCELLED
\* returns False and leaves the job store and the process map unchanged.
C4_TerminalCancelRejected ==
  [][\A j \in JobIds :
       (JobExists(j) /\ _jobs[j].status \in {COMPLETED, FAILED, CANCELLED}
          /\ stop_job_ret(j))
         => (ret'.value = FALSE /\ UNCHANGED <<_jobs, _processes>>)]_vars

\* The latest stop_job call returned False for a job that an earlier call had
\* cancelled, and the record is still the one that call left.
C4_Witness ==
  /\ ret.value = FALSE
  /\ ret.job_id \in DOMAIN stopped
  /\ JobExists(ret.job_id)
  /\ _jobs[ret.job_id] = stopped[ret.job_id]
  /\ _jobs[ret.job_id].status = CANCELLED

\* C11: when the last message put for a never-cancelled job is a worker
\* failure and the listener has received it, the job has status FAILED,
\* progress 0, result None and error set to the failure's description, a
\* description that is the empty string included.
C11_FailureRecorded ==
  \A j \in DOMAIN sent :
    (sent[j].n > 0 /\ Pending(j) = {} /\ sent[j].last.status = FAILED)
      => /\ _jobs[j].status = FAILED
         /\ _jobs[j].progress = 0
         /\ _jobs[j].result = None
         /\ _jobs[j].error # None
         /\ _jobs[j].error = sent[j].last.error

\* C13: when stop_job returns True for a job, no worker process of that job
\* is alive afterwards.
C13_CancelLeavesNoLiveWorker ==
  [][\A j \in JobIds :
       (stop_job(j) /\ stop_job_result(_jobs, j))
         => \A p \in ProcsOf(j) : ~is_alive(p)']_vars

\* C14: when stop_job returns True for a job, no handle is recorded for the
\* job id afterwards, whether its process was alive or dead at the lookup.
C14_CancelReleasesHandle ==
  [][\A j \in JobIds :
       (stop_job(j) /\ stop_job_result(_jobs, j))
         => j \notin DOMAIN _processes']_vars

C19_UnknownNotFound ==
  /\ [](\A j \in JobIds :
          (j \notin issued \/ ~JobExists(j))
            => /\ get_job_version(j) = -1
               /\ get_job_progress(j) = None
               /\ get_job(j) = None)
  /\ [][\A j \in JobIds : cleanup_job(j) => ~JobExists(j)']_vars

\* An issued id whose record cleanup_job removed, whose worker has put two
\* messages: the listener has received one, the other is still in the queue.
C19_Witness ==
  \E j \in issued :
    /\ ~JobExists(j)
    /\ get_job_version(j) = -1
    /\ \E p \in ProcsOf(j) : procs[p].pc = "send_transcribing"
    /\ Pending(j) # {}
    /\ Len(_status_queue) = 1

\* The terminal messages put for job j so far, and those the listener has
\* received.
TerminalsPut(j) ==
  Cardinality({x \in (DOMAIN procs) \X (1..2) :
                 procs[x[1]].job_id = j /\ x[2] <= procs[x[1]].terminals})

ObservedTerminal(j) ==
  TerminalsPut(j) > Cardinality({i \in Pending(j) : IsTerminalMsg(_status_queue[i])})

\* C12: every stored job for which a worker was spawned eventually has a
\* terminal status (or its record is removed by cleanup_job), when the
\* worker and the listener are scheduled fairly.
C12_EventuallyTerminal ==
  \A j \in JobIds :
    (JobExists(j) /\ ProcsOf(j) # {})
      ~> (~JobExists(j) \/ _jobs[j].status \in Terminal)

\* C15: a handle is recorded for a job id only if the job was submitted, the
\* listener has received no terminal message for it and its process was not
\* forcibly terminated by stop_job or shutdown_executor; and the listener
\* removes the handle whenever it receives a COMPLETED or FAILED message.
C15_HandleOnlyWhileRunning ==
  /\ [](\A j \in DOMAIN _processes :
          /\ ProcsOf(j) # {}
          /\ ~ObservedTerminal(j)
          /\ ~procs[_processes[j]].killed)
  /\ [][(ListenerRecv /\ IsTerminalMsg(get(_status_queue).msg))
          => get(_status_queue).msg.job_id \notin DOMAIN _processes']_vars

\* C17: when shutdown_executor returns, the listener thread is not alive and
\* no process that was alive at the call is alive.
C17_ShutdownStopsAll ==
  [][shutdown_return
       => /\ _listener_thread' # "alive"
          /\ \A p \in cpc.live : ~is_alive(p)']_vars

\* C16: at most one listener thread is alive at any time, also when
\* submit_job is called by two threads at once.
C16_OneListener == listeners <= 1

\* C20: the fields of a snapshot obtained from get_job stay what they were
\* when it was obtained, whatever the listener or stop_job do to the job
\* afterwards.
C20_SnapshotImmutable ==
  JobExists(ret.job_id) => held_job = ret.value

\* C21: create_job never returns an id for which a record exists or existed
\* before: a call to create_job takes an id that was never issued and leaves
\* every stored record as it was.
C21_FreshId ==
  [][\A j \in JobIds, l \in Languages :
       upload_hex(j, l) =>
         /\ j \notin issued
         /\ \A k \in DOMAIN _jobs : _jobs'[k] = _jobs[k]]_vars

\* C22: a record that create_job inserted has status QUEUED, version 0,
\* progress 0, result None and error None, and keeps them until the listener
\* applies the first message or stop_job succeeds; submit_job leaves every
\* record as it is.
C22_NewRecordQueued ==
  /\ [](\A j \in DOMAIN _jobs :
          accepted[j] = 0 =>
            /\ _jobs[j].status = QUEUED
            /\ _jobs[j]._version = 0
            /\ _jobs[j].progress = 0
            /\ _jobs[j].result = None
            /\ _jobs[j].error = None)
  /\ [][\A j \in JobIds : submit_job(j) => UNCHANGED _jobs]_vars

\* A submitted job whose worker has put a message that the listener has not
\* applied yet: the record is still the one create_job inserted.
C22_Witness ==
  \E j \in DOMAIN _jobs :
    /\ accepted[j] = 0
    /\ ProcsOf(j) # {}
    /\ Pending(j) # {}
    /\ _jobs[j].status = QUEUED

\* C23: a record leaves the store only in a cleanup_job call: no step of the
\* worker, the listener (terminal status, handle release), stop_job or
\* shutdown_executor removes one.
C23_RemovedOnlyByCleanup ==
  [][\A j \in JobIds :
       (j \in DOMAIN _jobs /\ j \notin DOMAIN _jobs') => cleanup_job(j)]_vars

\* A completed job whose handle the listener released and that outlived
\* shutdown_executor is still stored.
C23_Witness ==
  \E j \in DOMAIN _jobs :
    /\ _jobs[j].status = COMPLETED
    /\ j \notin DOMAIN _processes
    /\ _stop_listener
    /\ _listener_thread = "dead"

\* C24: a worker that is not killed runs transcriber.cleanup() before it
\* exits, after success and after a failure in any phase: the step on which a
\* process that was not killed ends is the return of line 125.
C24_CleanupBeforeExit ==
  [][\A p \in DOMAIN procs :
       (procs[p].pc # "exited" /\ procs'[p].pc = "exited" /\ ~procs'[p].killed)
         => W_Cleanup(p)]_vars

\* C25: while the client stays connected, the event_generator of job_stream
\* stops polling once it has yielded an event with a terminal status
\* (COMPLETED, FAILED or CANCELLED).
C25_StreamStopsOnTerminal ==
  stream.status \in Terminal => stream.pc # "polling"

C29_SubProgressMapping ==
  "pct" \in DOMAIN ret =>
    LET sub_pct == ret.pct
        progress == ret.value.progress
    IN  /\ 10 * (progress - 50) <= 4 * sub_pct
        /\ 4 * sub_pct < 10 * (progress - 50 + 1)
        /\ sub_pct <= 100 => progress \in 50..90
        /\ \A q \in 0..sub_pct : mapped_pct(q) <= progress
        /\ sub_pct = 60 => progress = 74
        /\ ret.value.status = TRANSCRIBING
        /\ \A m \in WorkerMsgs(0) \cup {ret.value} :
             sub_pct <= 100 => m.progress \in 0..100

\* The update for 60 percent was sent with progress 74.
C29_Witness ==
  /\ "pct" \in DOMAIN ret
  /\ ret.pct = 60
  /\ ret.value.progress = 74

\* C30: when stop_job and the listener's _update_job_state of the same job
\* interleave statement by statement, no version increment is lost and a
\* cancelled record does not end with another status: once both threads are
\* through, the version is the number of increments made and a job for which
\* stop_job returned True is CANCELLED.
C30_TwoWriterSafe ==
  \A j \in DOMAIN _jobs :
    (lpc.pc = "idle" /\ cpc.pc = "idle")
      => /\ _jobs[j]._version = accepted[j]
         /\ j \in DOMAIN stopped => _jobs[j].status = CANCELLED

\* C31: stop_job writes CANCELLED and the new version before it terminates
\* the worker: in every state in which stop_job has terminated or killed the
\* worker of a stored job, the status of that job is CANCELLED.
C31_CancelledBeforeKill ==
  \A p \in DOMAIN procs :
    (procs[p].killed /\ JobExists(procs[p].job_id))
      => _jobs[procs[p].job_id].status = CANCELLED

\* C32: a message the listener gets for an id that is not in the store is
\* ignored: the store is left as it is (no record is inserted, no record of
\* another job changes) and the listener thread stays alive.
C32_AbsentIgnored ==
  [][(ListenerRecv_ret /\ get(_status_queue).msg.job_id \notin DOMAIN _jobs)
       => (_jobs' = _jobs /\ _listener_thread' = "alive")]_vars

\* The listener's latest message was for a removed job while another job,
\* already updated, is stored, and the listener is alive.
C32_Witness ==
  /\ ret.job_id \in issued
  /\ ~ret.value.found
  /\ ret.job_id \notin DOMAIN _jobs
  /\ \E k \in DOMAIN _jobs : accepted[k] >= 1
  /\ _listener_thread = "alive"

\* C33: an item on the status queue that is malformed or unexpected is
\* dropped: the listener iteration that gets it leaves every job record as it
\* is and the listener thread stays alive for the messages that follow.
C33_MalformedDropped ==
  [][(ListenerRecv /\ Malformed(get(_status_queue).msg))
       => (_jobs' = _jobs /\ _listener_thread' = "alive")]_vars

\* C34: for an id that is not in the store, stop_job returns False and
\* submit_job returns without starting a worker or the listener; neither call
\* changes the job store, the handle map, the processes or the listener.
C34_UnknownIdRejected ==
  /\ [](\A j \in JobIds :
          ~JobExists(j) =>
            ~ENABLED (submit_job(j) /\ ~UNCHANGED <<_jobs, _processes, procs,
                                                    _listener_thread, _stop_listener>>))
  /\ [][\A j \in JobIds :
          (~JobExists(j) /\ stop_job_ret(j))
            => /\ ret'.value = FALSE
               /\ UNCHANGED <<_jobs, _processes, procs, _listener_thread,
                              _stop_listener>>]_vars

\* stop_job has returned False for an id that was never created while
\* another job is stored and has a live worker.
C34_Witness ==
  /\ ret.job_id \in JobIds \ issued
  /\ ret.value = FALSE
  /\ \E k \in DOMAIN _jobs : has_live_process(k)

\* C35: a stop_job call that returns True changes only status, message and
\* version of the job: progress, result, error, job_id, session_id,
\* file_path, video_filename, language and created_at stay as they were, and
\* no other record changes.
C35_CancelFrame ==
  [][\A j \in JobIds :
       (stop_job_result(_jobs, j) /\ stop_job(j))
         => /\ DOMAIN _jobs' = DOMAIN _jobs
            /\ \A k \in DOMAIN _jobs \ {j} : _jobs'[k] = _jobs[k]
            /\ \A f \in DOMAIN _jobs[j] \ {"status", "message", "_version"} :
                 _jobs'[j][f] = _jobs[j][f]
            /\ DOMAIN _jobs'[j] = DOMAIN _jobs[j]
            /\ _jobs'[j].status = CANCELLED
            /\ _jobs'[j]._version = _jobs[j]._version + 1]_vars

\* A job cancelled at progress 74 keeps it, next to another job that the
\* listener has updated.
C35_Witness ==
  \E j \in DOMAIN stopped :
    /\ JobExists(j)
    /\ _jobs[j].status = CANCELLED
    /\ _jobs[j].progress = 74
    /\ \E k \in DOMAIN _jobs \ {j} : accepted[k] >= 1

\* C36: whenever submit_job starts a worker, a listener that goes on reading
\* the queue runs afterwards: the listener thread is alive and not told to
\* stop, also when the call comes after shutdown_executor has set the flag
\* and the old listener thread is still alive.
C36_ListenerAfterSubmit ==
  [][\A j \in JobIds :
       (JobExists(j) /\ submit_job(j))
         => (_listener_thread' = "alive" /\ ~_stop_listener')]_vars

\* C37: when cleanup_job has returned for an id, the id is not in the store,
\* no process started for that job is alive and the handle map has no entry
\* for it, whatever the status of the job was.
C37_CleanupLeavesNothing ==
  [][\A j \in JobIds :
       (JobExists(j) /\ cleanup_job(j))
         => /\ j \notin DOMAIN _jobs'
            /\ j \notin DOMAIN _processes'
            /\ \A p \in ProcsOf(j) : ~is_alive(p)']_vars

=============================================================================
